---- MODULE Spec2Model ----
(***************************************************************************)
(* The distributed training / evaluation / checkpoint loop of              *)
(* src/train_dec.py (lines 55-186), one process per rank.                  *)
(*                                                                         *)
(* Each process runs the same script.  What the processes share is the     *)
(* working directory: the log file logs_dec/train_dec.log, the artifact    *)
(* directories and the checkpoint files logs_dec/vc_<epoch>.pt.            *)
(*                                                                         *)
(* Gradient synchronisation.  Line 117 wraps the model in                  *)
(* DistributedDataParallel, but the training step (line 139) calls         *)
(* compute_loss on model.module, the wrapped module itself, and never the  *)
(* wrapper.  The wrapper's gradient all-reduce is armed by the wrapper's   *)
(* own forward call; a backward pass that follows a call on model.module   *)
(* finds it unarmed and reduces nothing.  So the training step of the      *)
(* script is local to the process: Step below has no guard on the other    *)
(* ranks.  The only call on the wrapper is the inference of line 168, on   *)
(* the primary, with gradients disabled.                                   *)
(***************************************************************************)
EXTENDS Integers, Sequences, FiniteSets

\* ------------------------------------------------------------------ bounds
NRanks     == 2   \* processes started by the launcher, ranks 0 .. NRanks-1
MaxStart   == 2   \* --epoch-start is drawn from 1 .. MaxStart
MaxEpochs  == 2   \* --epochs is drawn from 0 .. MaxEpochs
MaxSave    == 2   \* --save-every is drawn from 1 .. MaxSave
NBatches   == 1   \* batches the loader yields per epoch on each rank
TestSize   == 1   \* params.test_size; the validation set has TestSize-1 .. TestSize+1 samples

Ranks    == 0 .. (NRanks - 1)
EpochIds == 1 .. (MaxStart + MaxEpochs - 1)
ValLens  == {n \in (TestSize - 1) .. (TestSize + 1) : n >= 0}

VARIABLES
    args,       \* the parsed command line: epoch_start, epochs, save_every, decoder_path
    val_len,    \* len(train_set.get_valid_dataset())
    proc,       \* proc[r]: the state of the process of rank r
    log,        \* log[e]: lines "Epoch e: loss = ..." this run appended to train_dec.log
    ops,        \* inferences and artifact / checkpoint writes of this run, in order
    ckpt_disk   \* ckpt_disk[e]: the file logs_dec/vc_<e>.pt

vars == <<args, val_len, proc, log, ops, ckpt_disk>>

\* ------------------------------------------------------------ the program
test_size == TestSize

local_rank(r) == r

ENC == "encoder"      \* the encoder module loaded at line 99
None == "None"

NoFile == [origin |-> "none", updates |-> 0, encoder |-> FALSE, writes |-> 0]

\* The file a run resumed with --decoder-path loads at line 97: it was written by an
\* earlier run, from a state_dict without the encoder.
EarlierFile == [origin |-> "earlier", updates |-> 0, encoder |-> FALSE, writes |-> 1]

RangeEnd == args.epoch_start + args.epochs

InRangeOffByOne(e) == e <= RangeEnd

\* range(epoch_start, epochs + epoch_start) still has e to offer
InRange(e) == e < RangeEnd

\* The for statement of line 129 offers epoch e to process state p: the body starts
\* (lines 130-133) or the loop, and with it the script, ends.
EnterLoop(p, e) ==
    IF InRange(e)
    THEN [p EXCEPT !.pc = "train", !.epoch = e, !.training = TRUE, !.batch = 0,
                   !.losses = "finite", !.executed = Append(@, e)]
    ELSE [p EXCEPT !.pc = "done"]

InitProc ==
    [pc |-> "start", epoch |-> 0, batch |-> 0, i |-> 0, training |-> TRUE,
     encoder |-> ENC, encoder_exclude |-> None, losses |-> "finite", iteration |-> 0,
     executed |-> <<>>, failed_in |-> ""]

\* An uncaught exception ends the process: nothing of its memory is left, only where
\* it stopped.
Fail(p, where) == [InitProc EXCEPT !.pc = "failed", !.failed_in = where]

IsPrimaryAnyRank(r) == local_rank(r) >= 0

\* line 153
IsPrimary(r) == local_rank(r) = 0

CadenceSkipInverted(e) == e % args.save_every = 0

\* line 154: continue
CadenceSkip(e) == e % args.save_every > 0

EvalContinuesToEnd(i) == i < val_len

\* lines 161-163: enumerate(mels) has a sample i, and i < test_size
EvalContinues(i) == i < val_len /\ i < test_size

\* line 169
DumpOriginal(e) == e = args.save_every

Op(kind, r, i) ==
    [op |-> kind, rank |-> r, epoch |-> proc[r].epoch, i |-> i,
     training |-> proc[r].training, encoder |-> proc[r].encoder]

\* lines 179-180
Detach(p) == [p EXCEPT !.encoder_exclude = p.encoder, !.encoder = None]

NoReattach(p) == p

\* line 186
Reattach(p) == [p EXCEPT !.encoder = p.encoder_exclude]

\* lines 181-184: model.module.state_dict() and optimizer.state_dict()
Ckpt(p, old) ==
    [origin |-> "run", updates |-> p.iteration, encoder |-> (p.encoder # None),
     writes |-> old.writes + 1]

\* Lines 55-128.  decoder_path 0 is no --decoder-path; decoder_path 1 is a run resumed
\* from logs_dec/vc_1.pt, which it finds in the log directory it shares with the run
\* that wrote it.
Init ==
    /\ args \in [epoch_start : 1 .. MaxStart, epochs : 0 .. MaxEpochs,
                 save_every : 1 .. MaxSave, decoder_path : {0, 1}]
    /\ val_len \in ValLens
    /\ proc = [r \in Ranks |-> EnterLoop(InitProc, args.epoch_start)]
    /\ log = [e \in EpochIds |-> 0]
    /\ ops = <<>>
    /\ ckpt_disk = [e \in EpochIds |-> IF e = args.decoder_path THEN EarlierFile ELSE NoFile]

\* Lines 135-144: one training step.  An exception (an allocation failure, a device
\* error) ends the process.  A NaN loss raises nothing: backward, clip_grad_norm_ and
\* optimizer.step run as for any other value, and loss.item() is appended to losses
\* ("nan": the list holds a NaN; "finite": it holds none).
Step(r) ==
    /\ proc[r].pc = "train"
    /\ proc[r].batch < NBatches
    /\ \E outcome \in {"finite", "nan", "raise"} :
         proc' = [proc EXCEPT ![r] =
                    IF outcome = "raise"
                    THEN Fail(@, "step")
                    ELSE [@ EXCEPT !.losses = IF outcome = "nan" THEN "nan" ELSE @,
                                   !.iteration = @ + 1, !.batch = @ + 1]]
    /\ UNCHANGED <<args, val_len, log, ops, ckpt_disk>>

\* Lines 146-160: the training pass is over; every rank appends its line to the log,
\* then the primary goes on to evaluate when the cadence is reached (model.eval(),
\* the validation set), and every other case is the next iteration of the loop.
LogLoss(r) ==
    /\ proc[r].pc = "train"
    /\ proc[r].batch = NBatches
    /\ log' = [log EXCEPT ![proc[r].epoch] = @ + 1]
    /\ proc' = [proc EXCEPT ![r] =
                  IF IsPrimary(r) /\ ~CadenceSkip(@.epoch)
                  THEN [@ EXCEPT !.pc = "eval", !.losses = "finite", !.training = FALSE,
                                 !.i = 0]
                  ELSE EnterLoop(@, @.epoch + 1)]
    /\ UNCHANGED <<args, val_len, ops, ckpt_disk>>

\* Lines 161-176: one sample of the validation set.  A failed write (save_plot,
\* save_audio) raises and ends the process: at the originals, or at the reconstruction.
EvalSample(r) ==
    /\ proc[r].pc = "eval"
    /\ EvalContinues(proc[r].i)
    /\ LET i == proc[r].i
           e == proc[r].epoch
           infer == <<Op("infer", r, i)>>
           orig  == IF DumpOriginal(e) THEN <<Op("orig", r, i)>> ELSE <<>>
           recon == <<Op("recon", r, i)>>
       IN \E fail \in {"none", "orig", "recon"} :
            /\ fail = "orig" => DumpOriginal(e)
            /\ ops' = ops \o infer \o (IF fail = "orig" THEN <<>> ELSE orig)
                          \o (IF fail = "none" THEN recon ELSE <<>>)
            /\ proc' = [proc EXCEPT ![r] =
                          IF fail = "none" THEN [@ EXCEPT !.i = @ + 1] ELSE Fail(@, "eval")]
    /\ UNCHANGED <<args, val_len, log, ckpt_disk>>

\* Lines 161-163 and 178-180: the validation loop ends (no sample left, or
\* i >= test_size), and the encoder is taken off the model.
EvalEnd(r) ==
    /\ proc[r].pc = "eval"
    /\ ~EvalContinues(proc[r].i)
    /\ proc' = [proc EXCEPT ![r] = [Detach(@) EXCEPT !.pc = "save"]]
    /\ UNCHANGED <<args, val_len, log, ops, ckpt_disk>>

\* Lines 181-186: torch.save writes vc_<epoch>.pt, whether or not the file exists, and
\* the encoder is put back; a failed write raises and ends the process.
SaveCheckpoint(r) ==
    /\ proc[r].pc = "save"
    /\ LET e == proc[r].epoch
       IN \E ok \in BOOLEAN :
            IF ok
            THEN /\ ckpt_disk' = [ckpt_disk EXCEPT ![e] = Ckpt(proc[r], @)]
                 /\ ops' = Append(ops, Op("ckpt", r, 0))
                 /\ proc' = [proc EXCEPT ![r] = EnterLoop(Reattach(@), e + 1)]
            ELSE /\ proc' = [proc EXCEPT ![r] = Fail(@, "save")]
                 /\ UNCHANGED <<ops, ckpt_disk>>
    /\ UNCHANGED <<args, val_len, log>>

RankNext(r) == Step(r) \/ LogLoss(r) \/ EvalSample(r) \/ EvalEnd(r) \/ SaveCheckpoint(r)

Next == \E r \in Ranks : RankNext(r)

Spec == Init /\ [][Next]_vars

\* Every process is scheduled by the operating system for as long as it can run.
FairSpec == Spec /\ \A r \in Ranks : WF_vars(RankNext(r))

\* ------------------------------------------------------------ the claims
Primary == CHOOSE r \in Ranks : local_rank(r) = 0

Min(a, b) == IF a < b THEN a ELSE b

\* the number of validation samples an evaluation is to cover
NArtifacts == Min(test_size, val_len)

\* the epochs of the run, from the command line
InRun(e) == args.epoch_start <= e /\ e < args.epoch_start + args.epochs

RunEpochs == {e \in EpochIds : InRun(e)}

CadenceEpochs == {e \in RunEpochs : e % args.save_every = 0}

RangeSeq == [k \in 1 .. args.epochs |-> args.epoch_start + k - 1]

OpsOf(kind, e) == SelectSeq(ops, LAMBDA o : o.op = kind /\ o.epoch = e)

Live(r) == proc[r].pc # "failed"

AnyFailed == \E r \in Ranks : proc[r].pc = "failed"

AllDone == \A r \in Ranks : proc[r].pc = "done"

\* rank r has gone through the whole body of the loop for epoch e
EpochCompleted(r, e) ==
    /\ \E k \in DOMAIN proc[r].executed : proc[r].executed[k] = e
    /\ proc[r].pc = "done" \/ (proc[r].pc # "failed" /\ proc[r].epoch > e)

\* C1: inferences, artifact writes and checkpoint writes happen only on the process
\* whose local_rank is 0, only in an epoch that is a multiple of save_every, and only
\* with the model in eval mode; no other process is ever in the evaluation or the save.
C1_EvalOnlyOnPrimaryAtCadence ==
    /\ \A k \in DOMAIN ops :
         /\ local_rank(ops[k].rank) = 0
         /\ ops[k].epoch % args.save_every = 0
         /\ ~ops[k].training
    /\ \A r \in Ranks :
         proc[r].pc \in {"eval", "save"} =>
           /\ local_rank(r) = 0
           /\ proc[r].epoch % args.save_every = 0
           /\ ~proc[r].training

\* the primary has evaluated and saved, and another rank has trained and gone on
C1_Witness ==
    /\ \E k \in DOMAIN ops : ops[k].op = "infer"
    /\ \E k \in DOMAIN ops : ops[k].op = "ckpt"
    /\ \E r \in Ranks : local_rank(r) # 0 /\ proc[r].pc = "done" /\ proc[r].iteration > 0

\* C2: once epoch e has completed on all ranks, the log has gained exactly one line
\* for e, and it gains no line for an epoch outside the range of the run.
C2_OneLogLinePerEpoch ==
    \A e \in EpochIds :
      /\ (\A r \in Ranks : EpochCompleted(r, e)) => log[e] = 1
      /\ ~InRun(e) => log[e] = 0

\* C3: in a run that completed, the originals are written in the first epoch of the
\* run that is a multiple of save_every, min(test_size, len(validation_set)) of them,
\* and in no other epoch.
C3_OriginalsInFirstCadenceEpoch ==
    AllDone =>
      \A e \in EpochIds :
        Len(OpsOf("orig", e)) =
          IF e \in CadenceEpochs /\ (\A d \in CadenceEpochs : e <= d)
          THEN NArtifacts ELSE 0

\* the evaluation loop of epoch e on the primary has ended
EvalOver(e) ==
    \/ proc[Primary].pc = "save" /\ proc[Primary].epoch = e
    \/ \E k \in DOMAIN ops : ops[k].op = "ckpt" /\ ops[k].epoch = e

C5_NoCheckpointWrittenTwice == \A e \in EpochIds : ckpt_disk[e].writes <= 1

\* C6: the encoder is off the model only between the start and the end of a
\* checkpoint save on the primary; what is serialized holds no encoder parameter;
\* after a save the encoder is the one that was there before, and it is attached at
\* every training pass and every inference.
C6_EncoderDetachedOnlyDuringSave ==
    /\ \A r \in Ranks :
         /\ proc[r].encoder \in {ENC, None}
         /\ proc[r].encoder = None => proc[r].pc = "save" /\ r = Primary
         /\ proc[r].pc \in {"train", "eval", "done"} => proc[r].encoder = ENC
    /\ \A e \in EpochIds : ckpt_disk[e].origin = "run" => ~ckpt_disk[e].encoder
    /\ \A k \in DOMAIN ops :
         ops[k].encoder = IF ops[k].op = "ckpt" THEN None ELSE ENC

\* the primary trains again after a save
C6_Witness ==
    /\ \E k \in DOMAIN ops : ops[k].op = "ckpt"
    /\ proc[Primary].pc = "train"
    /\ proc[Primary].encoder = ENC
    /\ proc[Primary].batch > 0

\* C7: a process whose training step produced a NaN loss has terminated, and once a
\* process has failed nothing more is written to the log, the artifacts or the
\* checkpoints.
C7_FailureIsFatal ==
    /\ [](\A r \in Ranks : proc[r].losses = "nan" => proc[r].pc = "failed")
    /\ [][AnyFailed => UNCHANGED <<log, ops, ckpt_disk>>]_vars

C9_Lockstep ==
    /\ \A r1, r2 \in Ranks :
         Live(r1) /\ Live(r2) =>
           /\ proc[r1].iteration - proc[r2].iteration <= 1
           /\ proc[r1].pc # "done" /\ proc[r2].pc # "done" =>
                proc[r1].epoch - proc[r2].epoch <= 1
    /\ \A r \in Ranks :
         proc[Primary].pc \in {"eval", "save"} /\ Live(r) =>
           proc[r].iteration <= proc[Primary].iteration
    /\ \A e \in EpochIds :
         ckpt_disk[e].origin = "run" =>
           ckpt_disk[e].updates = (e - args.epoch_start + 1) * NBatches

\* C10: a run that completed wrote exactly the checkpoints of the epochs of its range
\* that are multiples of save_every; each was written after the log line and after
\* all the artifacts of its epoch; the parameters of the last epoch are on disk
\* exactly when the last epoch is such a multiple.
C10_CheckpointsExactlyAtCadence ==
    /\ \A e \in EpochIds :
         (ckpt_disk[e].origin = "run") <=> (Len(OpsOf("ckpt", e)) > 0)
    /\ \A k \in DOMAIN ops :
         ops[k].op = "ckpt" =>
           /\ log[ops[k].epoch] >= 1
           /\ Len(OpsOf("recon", ops[k].epoch)) = NArtifacts
           /\ \A j \in DOMAIN ops :
                ops[j].epoch = ops[k].epoch /\ j # k => j < k /\ ops[j].op # "ckpt"
    /\ AllDone =>
         /\ {e \in EpochIds : ckpt_disk[e].origin = "run"} = CadenceEpochs
         /\ args.epochs > 0 =>
              LET last == args.epoch_start + args.epochs - 1
              IN (ckpt_disk[last].origin = "run") <=> (last % args.save_every = 0)

\* a completed run with a checkpoint for one epoch and none for its last epoch
C10_Witness ==
    /\ AllDone
    /\ args.epochs = 2
    /\ CadenceEpochs = {args.epoch_start}
    /\ ckpt_disk[args.epoch_start].origin = "run"
    /\ NArtifacts > 0

====
